---- MODULE Spec2Model ----
(***************************************************************************)
(* Model of the chat bot programs of tyulpin/ai-pplx-slack-bot.            *)
(*                                                                         *)
(* The repository holds four stand-alone `package main` programs:          *)
(*   "part_000" : src/unnamed/part_000        (commands + global dedup)    *)
(*   "main1"    : src/main.go lines   1-235   (commands, !perplexity)      *)
(*   "main2"    : src/main.go lines 237-452   (completion only, per-user   *)
(*                                             lastMessage map)            *)
(*   "main3"    : src/main.go lines 454-682   (interactive callbacks)      *)
(* A behaviour of the model is a run of one of them (variable prog): its   *)
(* start-up, then its event loop handling one inbound event per step.      *)
(* Definitions that exist once per program carry the suffix _p0, _m1, _m2  *)
(* or _m3 because the four programs reuse the same Go names.               *)
(*                                                                         *)
(* Specifications: Spec (the programs driven with their commands),         *)
(* SpecApi (the completion functions applied to every response), SpecText  *)
(* (the programs driven with variants of their commands), SpecPick (the    *)
(* two statements of pick-and-remove run by two callers), SpecCache (the   *)
(* two programs with a dedup state driven with queries of two senders).    *)
(***************************************************************************)
EXTENDS Integers, Sequences, FiniteSets, TLC

(***************************************************************************)
(* Bounds                                                                  *)
(***************************************************************************)
\* cap on the AUTOINCREMENT counter of table hyperlinks (rows ever inserted)
MaxRows == 2

(***************************************************************************)
(* Go string helpers (package strings), computed on TLA+ strings           *)
(***************************************************************************)
nil == ""

IsSpace(c) == c \in {" ", "\t", "\n", "\r"}

RECURSIVE TrimLeft(_)
TrimLeft(s) ==
  IF Len(s) > 0 /\ IsSpace(SubSeq(s, 1, 1))
  THEN TrimLeft(SubSeq(s, 2, Len(s)))
  ELSE s

RECURSIVE TrimRight(_)
TrimRight(s) ==
  IF Len(s) > 0 /\ IsSpace(SubSeq(s, Len(s), Len(s)))
  THEN TrimRight(SubSeq(s, 1, Len(s) - 1))
  ELSE s

TrimSpace(s) == TrimRight(TrimLeft(s))

HasPrefix(s, p) == Len(s) >= Len(p) /\ SubSeq(s, 1, Len(p)) = p

TrimPrefix(s, p) == IF HasPrefix(s, p) THEN SubSeq(s, Len(p) + 1, Len(s)) ELSE s

RECURSIVE Join(_, _)
Join(elems, sep) ==
  IF Len(elems) = 0 THEN ""
  ELSE IF Len(elems) = 1 THEN elems[1]
  ELSE elems[1] \o sep \o Join(Tail(elems), sep)

(***************************************************************************)
(* Inputs delivered by the environment                                     *)
(***************************************************************************)
Progs == {"part_000", "main1", "main2", "main3"}

Users == {"U1", "U2"}

Channels == {"C1"}

\* message texts each program is driven with: its own commands and free text
Texts(p) ==
  IF p = "part_000" THEN {"q1", "q2", "!save u1", "!list", "!random", "!summarize"}
  ELSE IF p = "main1" THEN {"q1", "!perplexity q1", "!savelink u1", "!getlink",
                            "!listlinks", "!summarize"}
  ELSE IF p = "main2" THEN {"q1", "q2"}
  ELSE {"q1", "!save u1", "!listlinks", "!randomlink", "!rss u1"}

\* the fields of slack.MessageEvent / slackevents.MessageEvent the code reads;
\* a message posted by a bot carries the bot's user and a non-empty BotID
MessageEvents(p) ==
  [User : Users, Text : Texts(p), BotID : {""}, Channel : Channels]
  \cup [User : {"UB"}, Text : Texts(p), BotID : {"B1"}, Channel : Channels]

\* outcome of the database statements of one command: "none" = all succeed,
\* "query" = the SELECT fails, "exec" = the INSERT/DELETE fails
DbErrMsg == "database is locked"

ErrNoRows == "sql: no rows in result set"

\* what the HTTP exchange with the completion endpoint produced
TransportErrMsg == "Post: dial tcp: i/o timeout"

ReadErrMsg == "unexpected EOF"

JsonErrMsg == "invalid character '<' looking for beginning of value"

JsonTypeErrMsg == "json: cannot unmarshal number into Go value"

\* bodies that lack the path choices[0].message.content
LackingShapes ==
  { "choices_missing", "choices_empty", "choice_not_object", "message_missing",
    "message_not_object", "content_missing", "content_not_string" }

BodyShapes == LackingShapes \cup {"not_json", "ok"}

Contents == {"a1", "a2"}

Body(shape, content) == [net |-> "body", shape |-> shape, content |-> content]

TransportError == [net |-> "transport_error", shape |-> "", content |-> ""]

ReadError == [net |-> "read_error", shape |-> "", content |-> ""]

NoResponse == [net |-> "none", shape |-> "", content |-> ""]

OkResponses == { Body("ok", c) : c \in Contents }

\* every response the completion functions are applied to (SpecApi)
AllResponses ==
  {TransportError, ReadError} \cup { Body(sh, "") : sh \in BodyShapes \ {"ok"} }
  \cup OkResponses

\* the failed exchanges the event loops are driven with
LoopFailures == {TransportError, Body("choices_empty", ""), Body("choice_not_object", "")}

\* environment variables: the set of names that are set to a non-empty value
KeyName(p) == IF p = "main2" THEN "PPLX_API_KEY" ELSE "PERPLEXITY_API_KEY"

FullEnv(p) == {"SLACK_BOT_TOKEN", "SLACK_APP_TOKEN", KeyName(p)}

\* main3 reads no environment variable (its tokens are literals)
EnvChoices(p) ==
  IF p = "main3" THEN {FullEnv(p)}
  ELSE {FullEnv(p)} \cup { FullEnv(p) \ {c} : c \in FullEnv(p) }

\* the completion endpoint answers with a completion only to a request that
\* carries a key
Responses(e, p) ==
  IF p = "main3" \/ KeyName(p) \in e
  THEN LoopFailures \cup OkResponses
  ELSE LoopFailures

\* gofeed results
Item1 == [Title |-> "t1", Description |-> "d1", Link |-> "l1"]

Item2 == [Title |-> "t2", Description |-> "d2", Link |-> "l2"]

FeedErrMsg == "http error: 404 Not Found"

Feeds ==
  { [err |-> FeedErrMsg, Items |-> <<>>],
    [err |-> nil, Items |-> <<>>],
    [err |-> nil, Items |-> <<Item1, Item2>>] }

(***************************************************************************)
(* State                                                                   *)
(***************************************************************************)
VARIABLES
  prog,            \* which of the four programs runs
  env,             \* environment variables that are set
  pc,              \* "start", "running", "exited" (os.Exit, log.Fatal, return
                   \* of main), "crashed" (run-time panic)
  hyperlinks,      \* table hyperlinks: sequence of rows [id, url] in id order
  seq,             \* AUTOINCREMENT counter of the table (largest id handed out)
  lastUserInput,   \* part_000 global
  lastBotResponse, \* part_000 global
  lastMessage,     \* main2 map[string]string, user -> last answered text
  cur,             \* record of the event handled by the latest step
  returned,        \* ids of the rows returned by pick-and-remove, in order
  lastQuery,       \* per sender, the text of the sender's latest completion
                   \* query (history of the inbound stream)
  appended,        \* the URL strings of the successful INSERTs, in order
  pickers,         \* the invocations of pick-and-remove that run statement by
                   \* statement on the same database (SpecPick)
  answered         \* the triples <<sender, query, response>> of the completion
                   \* calls that succeeded (history kept in SpecCache)

vars ==
  << prog, env, pc, hyperlinks, seq, lastUserInput, lastBotResponse,
     lastMessage, cur, returned, lastQuery, appended, pickers, answered >>

Msg(channel, text) == [channel |-> channel, text |-> text]

\* cur: kind    "none" (nothing handled yet), "message", "ignored" (an event
\*              the loop skips), "bad_payload", "api" (SpecApi)
\*      ev      the inbound message
\*      intent  the branch of the handler that ran
\*      dbErr   the database failure injected into the command
\*      queries the prompts posted to the completion endpoint, in order
\*      resp    the exchange the endpoint answered with
\*      api     how the completion function ended: "none" (not called), "ok",
\*              "err", "panic", "exit"
\*      apiVal  the string it returned (content or error text)
\*      sent    the PostMessage calls made, in order
\*      query   the query text of a completion intent
\*      dup     the handler found the query equal to the remembered one
\*      tick    alternates with every event handled
\*      picked  id of the row pick-and-remove returned (0: none)
\*      listed  ids of the rows a list command returned
\*      links   the URL strings a list command returned, in order
\*      url     the argument a save command passed to the INSERT
\*      feed    what the feed parser returned: "none" (not called), "error",
\*              "empty" (no items), "items"
NoEvent ==
  [ kind    |-> "none",
    ev      |-> [User |-> "", Text |-> "", BotID |-> "", Channel |-> ""],
    intent  |-> "none",
    dbErr   |-> "none",
    queries |-> <<>>,
    resp    |-> NoResponse,
    api     |-> "none",
    apiVal  |-> "",
    sent    |-> <<>>,
    query   |-> "",
    dup     |-> FALSE,
    tick    |-> 0,
    picked  |-> 0,
    listed  |-> {},
    links   |-> <<>>,
    url     |-> "",
    feed    |-> "none" ]

Handled(ev, intent) ==
  [NoEvent EXCEPT !.kind = "message", !.ev = ev, !.intent = intent,
                  !.tick = 1 - cur.tick]

Skipped(kind) == [NoEvent EXCEPT !.kind = kind, !.tick = 1 - cur.tick]

MapGet(m, k) == IF k \in DOMAIN m THEN m[k] ELSE ""

MapPut(m, k, v) == [ x \in DOMAIN m \cup {k} |-> IF x = k THEN v ELSE m[x] ]

\* a message of a person that the handler took as a completion query
IsQuery(c) ==
  c.kind = "message" /\ c.ev.BotID = "" /\ c.intent \in {"default", "perplexity"}

Remember(c) ==
  IF IsQuery(c) THEN MapPut(lastQuery, c.ev.User, c.query) ELSE lastQuery

\* the INSERT of a save command succeeded: its argument joins the history
Recorded(c) ==
  IF c.kind = "message" /\ c.intent = "save" /\ c.dbErr = "none"
  THEN Append(appended, c.url) ELSE appended

FeedKind(feed) ==
  IF feed.err # nil THEN "error"
  ELSE IF Len(feed.Items) = 0 THEN "empty" ELSE "items"

\* two callers of pick-and-remove; each is "idle" (not called), "selected"
\* (its SELECT returned the row id/url, its DELETE has not run) or "done"
Pickers == {1, 2}

IdlePicker == [pc |-> "idle", id |-> 0, url |-> "", ret |-> "", err |-> ""]

Init ==
  /\ prog \in Progs
  /\ env \in EnvChoices(prog)
  /\ pc = "start"
  /\ hyperlinks = <<>>
  /\ seq = 0
  /\ lastUserInput = ""
  /\ lastBotResponse = ""
  /\ lastMessage = <<>>
  /\ cur = NoEvent
  /\ returned = <<>>
  /\ lastQuery = <<>>
  /\ appended = <<>>
  /\ pickers = [k \in Pickers |-> IdlePicker]
  /\ answered = {}

(***************************************************************************)
(* Table hyperlinks (id INTEGER PRIMARY KEY AUTOINCREMENT, url TEXT)       *)
(***************************************************************************)
Ids(tbl) == { tbl[i].id : i \in DOMAIN tbl }

Urls(tbl) == [ i \in DOMAIN tbl |-> tbl[i].url ]

InsertRow(tbl, n, url) == Append(tbl, [id |-> n + 1, url |-> url])

DeleteById(tbl, id) == SelectSeq(tbl, LAMBDA r : r.id # id)

DeleteByUrl(tbl, url) == SelectSeq(tbl, LAMBDA r : r.url # url)

\* ORDER BY RANDOM() LIMIT 1 picks any row (row 0: the table is empty); the
\* SELECT may fail, and with a row selected the DELETE may fail
PickInputs(tbl) ==
  {[dbErr |-> "query", row |-> 0]}
  \cup IF Len(tbl) = 0
       THEN {[dbErr |-> "none", row |-> 0]}
       ELSE [dbErr : {"none", "exec"}, row : DOMAIN tbl]

(***************************************************************************)
(* Program "part_000": src/unnamed/part_000                                *)
(***************************************************************************)
saveHyperlink_p0(tbl, n, url, dbErr) ==
  IF dbErr = "exec"
  THEN [err |-> DbErrMsg, tbl |-> tbl, seq |-> n]
  ELSE [err |-> nil, tbl |-> InsertRow(tbl, n, url), seq |-> n + 1]

listHyperlinks_p0(tbl, dbErr) ==
  IF dbErr = "query"
  THEN [links |-> <<>>, err |-> DbErrMsg, ids |-> {}]
  ELSE [links |-> Urls(tbl), err |-> nil, ids |-> Ids(tbl)]

\* getRandomHyperlink without its DELETE: the selected row stays in the table
getRandomHyperlink_p0_NoDelete(tbl, row, dbErr) ==
  IF dbErr = "query" THEN [url |-> "", err |-> DbErrMsg, tbl |-> tbl, id |-> 0]
  ELSE IF row = 0 THEN [url |-> "", err |-> ErrNoRows, tbl |-> tbl, id |-> 0]
  ELSE IF dbErr = "exec" THEN [url |-> "", err |-> DbErrMsg, tbl |-> tbl, id |-> 0]
  ELSE [url |-> tbl[row].url, err |-> nil, tbl |-> tbl, id |-> tbl[row].id]

\* SELECT id, url ... ORDER BY RANDOM() LIMIT 1, then DELETE ... WHERE id = ?
getRandomHyperlink_p0(tbl, row, dbErr) ==
  IF dbErr = "query" THEN [url |-> "", err |-> DbErrMsg, tbl |-> tbl, id |-> 0]
  ELSE IF row = 0 THEN [url |-> "", err |-> ErrNoRows, tbl |-> tbl, id |-> 0]
  ELSE IF dbErr = "exec" THEN [url |-> "", err |-> DbErrMsg, tbl |-> tbl, id |-> 0]
  ELSE [ url |-> tbl[row].url, err |-> nil,
         tbl |-> DeleteById(tbl, tbl[row].id), id |-> tbl[row].id ]

summarizeArticle_p0(url, feed) ==
  IF feed.err # nil THEN [val |-> "", err |-> feed.err]
  ELSE IF Len(feed.Items) = 0 THEN [val |-> "", err |-> "no items found in the feed"]
  ELSE [ val |-> "Title: " \o feed.Items[1].Title \o "\n\nDescription: "
                   \o feed.Items[1].Description,
         err |-> nil ]

\* kind "panic": the unchecked type assertion choices[0].(map[string]interface{})
PerplexityAPI_p0(input, resp) ==
  IF resp.net = "transport_error" THEN [kind |-> "err", val |-> "", err |-> TransportErrMsg]
  ELSE IF resp.net = "read_error" THEN [kind |-> "err", val |-> "", err |-> ReadErrMsg]
  ELSE IF resp.shape = "not_json" THEN [kind |-> "err", val |-> "", err |-> JsonErrMsg]
  ELSE IF resp.shape \in {"choices_missing", "choices_empty"}
    THEN [kind |-> "err", val |-> "", err |-> "invalid response format"]
  ELSE IF resp.shape = "choice_not_object"
    THEN [kind |-> "panic", val |-> "", err |-> ""]
  ELSE IF resp.shape \in {"message_missing", "message_not_object"}
    THEN [kind |-> "err", val |-> "", err |-> "invalid response format"]
  ELSE IF resp.shape \in {"content_missing", "content_not_string"}
    THEN [kind |-> "err", val |-> "", err |-> "invalid response format"]
  ELSE [kind |-> "ok", val |-> resp.content, err |-> nil]

\* sql.Open / CREATE TABLE IF NOT EXISTS fail -> log.Fatal; socketClient.Run()
\* returns an error when Slack refuses the tokens -> log.Fatal
main_p0 ==
  /\ prog = "part_000"
  /\ pc = "start"
  /\ \E dbOK \in BOOLEAN :
       pc' = IF dbOK /\ {"SLACK_BOT_TOKEN", "SLACK_APP_TOKEN"} \subseteq env
             THEN "running" ELSE "exited"
  /\ UNCHANGED << prog, env, hyperlinks, seq, lastUserInput, lastBotResponse,
                  lastMessage, cur, returned, lastQuery, appended, pickers, answered >>

handleUserMessage_p0(ev) ==
  LET text == TrimSpace(ev.Text) IN
  IF HasPrefix(text, "!save ") THEN
    \E dbErr \in {"none", "exec"} :
      LET url == TrimPrefix(text, "!save ")
          r   == saveHyperlink_p0(hyperlinks, seq, url, dbErr)
      IN /\ r.seq <= MaxRows
         /\ hyperlinks' = r.tbl
         /\ seq' = r.seq
         /\ cur' = [ Handled(ev, "save") EXCEPT
                       !.dbErr = dbErr,
                       !.url = url,
                       !.sent = << Msg(ev.Channel,
                                   IF r.err # nil
                                   THEN "Error saving hyperlink: " \o r.err
                                   ELSE "Hyperlink saved successfully!") >> ]
         /\ UNCHANGED << pc, lastUserInput, lastBotResponse, returned >>
  ELSE IF text = "!list" THEN
    \E dbErr \in {"none", "query"} :
      LET r == listHyperlinks_p0(hyperlinks, dbErr)
      IN /\ cur' = [ Handled(ev, "list") EXCEPT
                       !.dbErr = dbErr,
                       !.listed = r.ids,
                       !.links = r.links,
                       !.sent = << Msg(ev.Channel,
                                   IF r.err # nil
                                   THEN "Error listing hyperlinks: " \o r.err
                                   ELSE "Saved hyperlinks:\n" \o Join(r.links, "\n")) >> ]
         /\ UNCHANGED << pc, hyperlinks, seq, lastUserInput, lastBotResponse, returned >>
  ELSE IF text = "!random" THEN
    \E in \in PickInputs(hyperlinks) :
      LET r == getRandomHyperlink_p0(hyperlinks, in.row, in.dbErr)
      IN /\ hyperlinks' = r.tbl
         /\ returned' = IF r.id # 0 THEN Append(returned, r.id) ELSE returned
         /\ cur' = [ Handled(ev, "random") EXCEPT
                       !.dbErr = in.dbErr,
                       !.picked = r.id,
                       !.sent = << Msg(ev.Channel,
                                   IF r.err # nil
                                   THEN "Error getting random hyperlink: " \o r.err
                                   ELSE "Random hyperlink: " \o r.url) >> ]
         /\ UNCHANGED << pc, seq, lastUserInput, lastBotResponse >>
  ELSE IF text = "!summarize" THEN
    \E in \in PickInputs(hyperlinks) :
      LET r == getRandomHyperlink_p0(hyperlinks, in.row, in.dbErr)
      IN /\ hyperlinks' = r.tbl
         /\ returned' = IF r.id # 0 THEN Append(returned, r.id) ELSE returned
         /\ IF r.err # nil
            THEN cur' = [ Handled(ev, "summarize") EXCEPT
                            !.dbErr = in.dbErr,
                            !.sent = << Msg(ev.Channel,
                                        "Error getting random hyperlink: " \o r.err) >> ]
            ELSE \E feed \in Feeds :
                   LET s == summarizeArticle_p0(r.url, feed)
                   IN cur' = [ Handled(ev, "summarize") EXCEPT
                                 !.dbErr = in.dbErr,
                                 !.picked = r.id,
                                 !.feed = FeedKind(feed),
                                 !.sent = << Msg(ev.Channel,
                                             IF s.err # nil
                                             THEN "Error summarizing article: " \o s.err
                                             ELSE "Summary of " \o r.url \o ":\n" \o s.val) >> ]
         /\ UNCHANGED << pc, seq, lastUserInput, lastBotResponse >>
  ELSE IF text # lastUserInput THEN
    \E resp \in Responses(env, prog) :
      LET a == PerplexityAPI_p0(text, resp)
      IN /\ lastUserInput' = text
         /\ lastBotResponse' = IF a.kind = "ok" THEN a.val ELSE lastBotResponse
         /\ pc' = IF a.kind = "panic" THEN "crashed" ELSE pc
         /\ cur' = [ Handled(ev, "default") EXCEPT
                       !.query = text,
                       !.queries = <<text>>,
                       !.resp = resp,
                       !.api = a.kind,
                       !.apiVal = IF a.kind = "err" THEN a.err ELSE a.val,
                       !.sent = IF a.kind = "panic" THEN <<>>
                                ELSE IF a.kind = "err"
                                THEN << Msg(ev.Channel, "Error: " \o a.err) >>
                                ELSE << Msg(ev.Channel, a.val) >> ]
         /\ UNCHANGED << hyperlinks, seq, returned >>
  ELSE
    /\ cur' = [ Handled(ev, "default") EXCEPT
                  !.query = text,
                  !.dup = TRUE,
                  !.sent = << Msg(ev.Channel, lastBotResponse) >> ]
    /\ UNCHANGED << pc, hyperlinks, seq, lastUserInput, lastBotResponse, returned >>

\* handleEventAPI with a handler that records the text of a "!list" command
\* in lastUserInput, as it does for a query
handleEventAPI_p0_ListRecorded(ev) ==
  IF ev.BotID = "" /\ TrimSpace(ev.Text) = "!list"
  THEN \E dbErr \in {"none", "query"} :
         LET r == listHyperlinks_p0(hyperlinks, dbErr)
         IN /\ lastUserInput' = TrimSpace(ev.Text)
            /\ cur' = [ Handled(ev, "list") EXCEPT
                          !.dbErr = dbErr,
                          !.listed = r.ids,
                          !.links = r.links,
                          !.sent = << Msg(ev.Channel,
                                      IF r.err # nil
                                      THEN "Error listing hyperlinks: " \o r.err
                                      ELSE "Saved hyperlinks:\n" \o Join(r.links, "\n")) >> ]
            /\ UNCHANGED << pc, hyperlinks, seq, lastBotResponse, returned >>
  ELSE IF ev.BotID = ""
  THEN handleUserMessage_p0(ev)
  ELSE /\ cur' = Handled(ev, "filtered")
       /\ UNCHANGED << pc, hyperlinks, seq, lastUserInput, lastBotResponse, returned >>

handleEventAPI_p0(ev) ==
  IF ev.BotID = ""
  THEN handleUserMessage_p0(ev)
  ELSE /\ cur' = Handled(ev, "filtered")
       /\ UNCHANGED << pc, hyperlinks, seq, lastUserInput, lastBotResponse, returned >>

\* for evt := range socketClient.Events: an Events API event is acknowledged
\* and, when it carries a message, handled; every other event is skipped
EventLoop_p0 ==
  /\ prog = "part_000"
  /\ pc = "running"
  /\ \/ \E ev \in MessageEvents(prog) : handleEventAPI_p0(ev)
     \/ /\ cur' = Skipped("ignored")
        /\ UNCHANGED << pc, hyperlinks, seq, lastUserInput, lastBotResponse, returned >>
  /\ lastQuery' = Remember(cur')
  /\ appended' = Recorded(cur')
  /\ UNCHANGED << prog, env, lastMessage, pickers, answered >>

(***************************************************************************)
(* Program "main1": src/main.go lines 1-235                                *)
(***************************************************************************)
saveHyperlink_m1(tbl, n, url, dbErr) ==
  IF dbErr = "exec"
  THEN [err |-> DbErrMsg, tbl |-> tbl, seq |-> n]
  ELSE [err |-> nil, tbl |-> InsertRow(tbl, n, url), seq |-> n + 1]

getAllHyperlinks_m1(tbl, dbErr) ==
  IF dbErr = "query"
  THEN [links |-> <<>>, err |-> DbErrMsg, ids |-> {}]
  ELSE [links |-> Urls(tbl), err |-> nil, ids |-> Ids(tbl)]

\* SELECT url ... ORDER BY RANDOM() LIMIT 1 (sql.ErrNoRows is not an error),
\* then DELETE ... WHERE url = ?
getRandomHyperlink_m1(tbl, row, dbErr) ==
  IF dbErr = "query" THEN [url |-> "", err |-> DbErrMsg, tbl |-> tbl, id |-> 0]
  ELSE IF row = 0 THEN [url |-> "", err |-> nil, tbl |-> tbl, id |-> 0]
  ELSE IF dbErr = "exec" THEN [url |-> "", err |-> DbErrMsg, tbl |-> tbl, id |-> 0]
  ELSE [ url |-> tbl[row].url, err |-> nil,
         tbl |-> DeleteByUrl(tbl, tbl[row].url), id |-> tbl[row].id ]

\* fetchRSS without the test of len(feed.Items): an empty feed gives an empty
\* article and no error
fetchRSS_m1_NoEmptyCheck(url, feed) ==
  IF feed.err # nil THEN [val |-> "", err |-> feed.err]
  ELSE IF Len(feed.Items) > 0
  THEN [ val |-> "Title: " \o feed.Items[1].Title \o "\n\nDescription: "
                   \o feed.Items[1].Description,
         err |-> nil ]
  ELSE [val |-> "", err |-> nil]

fetchRSS_m1(url, feed) ==
  IF feed.err # nil THEN [val |-> "", err |-> feed.err]
  ELSE IF Len(feed.Items) > 0
  THEN [ val |-> "Title: " \o feed.Items[1].Title \o "\n\nDescription: "
                   \o feed.Items[1].Description,
         err |-> nil ]
  ELSE [val |-> "", err |-> "no items found in the feed"]

\* returns a plain string: the errors of io.ReadAll and json.Unmarshal are
\* dropped and every failure is turned into text
PerplexityAPI_m1(query, resp) ==
  IF resp.net = "transport_error"
  THEN [kind |-> "ok", val |-> "Error: " \o TransportErrMsg, err |-> nil]
  ELSE IF resp.net = "body" /\ resp.shape = "ok"
  THEN [kind |-> "ok", val |-> resp.content, err |-> nil]
  ELSE [kind |-> "ok", val |-> "No response from Perplexity API", err |-> nil]

\* sql.Open / CREATE TABLE fail -> log.Fatal; when socketClient.Run() returns
\* (Slack refuses the tokens) main returns
main_m1 ==
  /\ prog = "main1"
  /\ pc = "start"
  /\ \E dbOK \in BOOLEAN :
       pc' = IF dbOK /\ {"SLACK_BOT_TOKEN", "SLACK_APP_TOKEN"} \subseteq env
             THEN "running" ELSE "exited"
  /\ UNCHANGED << prog, env, hyperlinks, seq, lastUserInput, lastBotResponse,
                  lastMessage, cur, returned, lastQuery, appended, pickers, answered >>

handleMessage_m1(ev) ==
  LET text == TrimSpace(ev.Text) IN
  IF HasPrefix(text, "!perplexity") THEN
    \E resp \in Responses(env, prog) :
      LET query == TrimPrefix(text, "!perplexity")
          a     == PerplexityAPI_m1(query, resp)
      IN /\ cur' = [ Handled(ev, "perplexity") EXCEPT
                       !.query = query,
                       !.queries = <<query>>,
                       !.resp = resp,
                       !.api = a.kind,
                       !.apiVal = a.val,
                       !.sent = << Msg(ev.Channel, a.val) >> ]
         /\ UNCHANGED << hyperlinks, seq, returned >>
  ELSE IF HasPrefix(text, "!savelink") THEN
    \E dbErr \in {"none", "exec"} :
      LET url == TrimPrefix(text, "!savelink")
          r   == saveHyperlink_m1(hyperlinks, seq, url, dbErr)
      IN /\ r.seq <= MaxRows
         /\ hyperlinks' = r.tbl
         /\ seq' = r.seq
         /\ cur' = [ Handled(ev, "save") EXCEPT
                       !.dbErr = dbErr,
                       !.url = url,
                       !.sent = << Msg(ev.Channel,
                                   IF r.err # nil
                                   THEN "Error saving hyperlink: " \o r.err
                                   ELSE "Hyperlink saved successfully") >> ]
         /\ UNCHANGED returned
  ELSE IF text = "!getlink" THEN
    \E in \in PickInputs(hyperlinks) :
      LET r == getRandomHyperlink_m1(hyperlinks, in.row, in.dbErr)
      IN /\ hyperlinks' = r.tbl
         /\ returned' = IF r.id # 0 THEN Append(returned, r.id) ELSE returned
         /\ cur' = [ Handled(ev, "random") EXCEPT
                       !.dbErr = in.dbErr,
                       !.picked = r.id,
                       !.sent = << Msg(ev.Channel,
                                   IF r.err # nil
                                   THEN "Error getting hyperlink: " \o r.err
                                   ELSE IF r.url = ""
                                   THEN "No hyperlinks available"
                                   ELSE "Random hyperlink: " \o r.url) >> ]
         /\ UNCHANGED seq
  ELSE IF text = "!listlinks" THEN
    \E dbErr \in {"none", "query"} :
      LET r == getAllHyperlinks_m1(hyperlinks, dbErr)
      IN /\ cur' = [ Handled(ev, "list") EXCEPT
                       !.dbErr = dbErr,
                       !.listed = r.ids,
                       !.links = r.links,
                       !.sent = << Msg(ev.Channel,
                                   IF r.err # nil
                                   THEN "Error listing hyperlinks: " \o r.err
                                   ELSE IF Len(r.links) = 0
                                   THEN "No hyperlinks saved"
                                   ELSE "Saved hyperlinks:\n" \o Join(r.links, "\n")) >> ]
         /\ UNCHANGED << hyperlinks, seq, returned >>
  ELSE IF text = "!summarize" THEN
    \E in \in PickInputs(hyperlinks) :
      LET r == getRandomHyperlink_m1(hyperlinks, in.row, in.dbErr)
      IN /\ hyperlinks' = r.tbl
         /\ returned' = IF r.id # 0 THEN Append(returned, r.id) ELSE returned
         /\ UNCHANGED seq
         /\ IF r.err # nil
            THEN cur' = [ Handled(ev, "summarize") EXCEPT
                            !.dbErr = in.dbErr,
                            !.sent = << Msg(ev.Channel,
                                        "Error getting hyperlink: " \o r.err) >> ]
            ELSE IF r.url = ""
            THEN cur' = [ Handled(ev, "summarize") EXCEPT
                            !.dbErr = in.dbErr,
                            !.picked = r.id,
                            !.sent = << Msg(ev.Channel, "No hyperlinks available") >> ]
            ELSE \E feed \in Feeds :
                   LET f == fetchRSS_m1(r.url, feed)
                   IN IF f.err # nil
                      THEN cur' = [ Handled(ev, "summarize") EXCEPT
                                      !.dbErr = in.dbErr,
                                      !.picked = r.id,
                                      !.feed = FeedKind(feed),
                                      !.sent = << Msg(ev.Channel,
                                                  "Error fetching article: " \o f.err) >> ]
                      ELSE \E resp \in Responses(env, prog) :
                             LET query == "Summarize this article: " \o f.val
                                 a     == PerplexityAPI_m1(query, resp)
                             IN cur' = [ Handled(ev, "summarize") EXCEPT
                                           !.dbErr = in.dbErr,
                                           !.picked = r.id,
                                           !.feed = FeedKind(feed),
                                           !.queries = <<query>>,
                                           !.resp = resp,
                                           !.api = a.kind,
                                           !.apiVal = a.val,
                                           !.sent = << Msg(ev.Channel,
                                                       "Summary of article from " \o r.url
                                                         \o ":\n\n" \o a.val) >> ]
  ELSE
    /\ cur' = Handled(ev, "unmatched")
    /\ UNCHANGED << hyperlinks, seq, returned >>

\* case event := <-client.Events: an Events API event is acknowledged and,
\* when it carries a message, handled (no test of BotID); every other event
\* is skipped
EventLoop_m1 ==
  /\ prog = "main1"
  /\ pc = "running"
  /\ \/ \E ev \in MessageEvents(prog) : handleMessage_m1(ev)
     \/ /\ cur' = Skipped("ignored")
        /\ UNCHANGED << hyperlinks, seq, returned >>
  /\ lastQuery' = Remember(cur')
  /\ appended' = Recorded(cur')
  /\ UNCHANGED << prog, env, pc, lastUserInput, lastBotResponse, lastMessage, pickers, answered >>

(***************************************************************************)
(* Program "main2": src/main.go lines 237-452                              *)
(***************************************************************************)
\* returns the raw response body; exits the process when PPLX_API_KEY is unset
PerplexityAPI_m2(e, request, resp) ==
  IF "PPLX_API_KEY" \notin e THEN [kind |-> "exit", body |-> NoResponse, err |-> ""]
  ELSE IF resp.net = "transport_error"
    THEN [kind |-> "err", body |-> NoResponse, err |-> TransportErrMsg]
  ELSE IF resp.net = "read_error"
    THEN [kind |-> "err", body |-> NoResponse, err |-> ReadErrMsg]
  ELSE [kind |-> "ok", body |-> resp, err |-> nil]

\* json.Unmarshal into PerplexityResponse{Choices []Choice{Message{Content}}}:
\* an absent field keeps its zero value, a field of the wrong JSON type is an
\* error
Unmarshal_m2(body) ==
  IF body.shape = "not_json" THEN [err |-> JsonErrMsg, Choices |-> <<>>]
  ELSE IF body.shape \in {"choice_not_object", "message_not_object", "content_not_string"}
    THEN [err |-> JsonTypeErrMsg, Choices |-> <<>>]
  ELSE IF body.shape \in {"choices_missing", "choices_empty"}
    THEN [err |-> nil, Choices |-> <<>>]
  ELSE IF body.shape \in {"message_missing", "content_missing"}
    THEN [err |-> nil, Choices |-> <<"">>]
  ELSE [err |-> nil, Choices |-> <<body.content>>]

\* posts to the fixed channel "general"
SlackSend_m2(text) == Msg("general", text)

\* godotenv.Load fails -> return; a missing token -> os.Exit(1)
main_m2 ==
  /\ prog = "main2"
  /\ pc = "start"
  /\ \E dotenvOK \in BOOLEAN :
       pc' = IF dotenvOK /\ "SLACK_BOT_TOKEN" \in env /\ "SLACK_APP_TOKEN" \in env
             THEN "running" ELSE "exited"
  /\ UNCHANGED << prog, env, hyperlinks, seq, lastUserInput, lastBotResponse,
                  lastMessage, cur, returned, lastQuery, appended, pickers, answered >>

\* body of case *slackevents.MessageEvent
handleMessageEvent_m2(ev) ==
  IF ev.BotID # "" THEN
    /\ cur' = Handled(ev, "filtered")
    /\ UNCHANGED << pc, lastMessage >>
  ELSE
    \E resp \in Responses(env, prog) :
      LET a == PerplexityAPI_m2(env, ev.Text, resp)
          d == Unmarshal_m2(a.body)
          h == [Handled(ev, "default") EXCEPT !.query = ev.Text]
      IN IF a.kind = "exit" THEN
           /\ pc' = "exited"
           /\ cur' = [h EXCEPT !.api = "exit"]
           /\ UNCHANGED lastMessage
         ELSE IF a.kind = "err" THEN
           /\ cur' = [h EXCEPT !.queries = <<ev.Text>>, !.resp = resp,
                               !.api = "err", !.apiVal = a.err]
           /\ UNCHANGED << pc, lastMessage >>
         ELSE IF d.err # nil THEN
           /\ cur' = [h EXCEPT !.queries = <<ev.Text>>, !.resp = resp,
                               !.api = "err", !.apiVal = d.err]
           /\ UNCHANGED << pc, lastMessage >>
         ELSE IF ev.Text # MapGet(lastMessage, ev.User) /\ Len(d.Choices) > 0 THEN
           /\ lastMessage' = MapPut(lastMessage, ev.User, ev.Text)
           /\ cur' = [h EXCEPT !.queries = <<ev.Text>>, !.resp = resp,
                               !.api = "ok", !.apiVal = d.Choices[1],
                               !.sent = << SlackSend_m2(d.Choices[1]) >>]
           /\ UNCHANGED pc
         ELSE
           /\ cur' = [h EXCEPT !.queries = <<ev.Text>>, !.resp = resp,
                               !.api = "ok",
                               !.dup = (ev.Text = MapGet(lastMessage, ev.User)),
                               !.apiVal = IF Len(d.Choices) > 0 THEN d.Choices[1] ELSE ""]
           /\ UNCHANGED << pc, lastMessage >>

\* for evt := range client.Events: only a callback event carrying a message
\* is handled
EventLoop_m2 ==
  /\ prog = "main2"
  /\ pc = "running"
  /\ \/ \E ev \in MessageEvents(prog) : handleMessageEvent_m2(ev)
     \/ /\ cur' = Skipped("ignored")
        /\ UNCHANGED << pc, lastMessage >>
  /\ lastQuery' = Remember(cur')
  /\ UNCHANGED << prog, env, hyperlinks, seq, lastUserInput, lastBotResponse, returned,
                  appended, pickers, answered >>

(***************************************************************************)
(* Program "main3": src/main.go lines 454-682                              *)
(***************************************************************************)
\* storage that cleans its argument up before the INSERT
storage_m3_Trimmed(tbl, n, url, dbErr) ==
  IF dbErr = "exec"
  THEN [err |-> DbErrMsg, tbl |-> tbl, seq |-> n]
  ELSE [err |-> nil, tbl |-> InsertRow(tbl, n, TrimSpace(url)), seq |-> n + 1]

storage_m3(tbl, n, url, dbErr) ==
  IF dbErr = "exec"
  THEN [err |-> DbErrMsg, tbl |-> tbl, seq |-> n]
  ELSE [err |-> nil, tbl |-> InsertRow(tbl, n, url), seq |-> n + 1]

listAllLinks_m3(tbl, dbErr) ==
  IF dbErr = "query"
  THEN [links |-> <<>>, err |-> DbErrMsg, ids |-> {}]
  ELSE [links |-> Urls(tbl), err |-> nil, ids |-> Ids(tbl)]

\* SELECT id, url ... ORDER BY RANDOM() LIMIT 1, then DELETE ... WHERE id = ?
fetchRandomLink_m3(tbl, row, dbErr) ==
  IF dbErr = "query" THEN [url |-> "", err |-> DbErrMsg, tbl |-> tbl, id |-> 0]
  ELSE IF row = 0 THEN [url |-> "", err |-> ErrNoRows, tbl |-> tbl, id |-> 0]
  ELSE IF dbErr = "exec" THEN [url |-> "", err |-> DbErrMsg, tbl |-> tbl, id |-> 0]
  ELSE [ url |-> tbl[row].url, err |-> nil,
         tbl |-> DeleteById(tbl, tbl[row].id), id |-> tbl[row].id ]

RECURSIVE ItemLines(_)
ItemLines(items) ==
  IF Len(items) = 0 THEN ""
  ELSE "Title: " \o items[1].Title \o "\nLink: " \o items[1].Link \o "\n"
       \o ItemLines(Tail(items))

fetchRSSSummary_m3(url, feed) ==
  IF feed.err # nil THEN [val |-> "", err |-> feed.err]
  ELSE [val |-> ItemLines(feed.Items), err |-> nil]

\* decodes the body into PerplexityResponse{Content string `json:"content"`}:
\* a top-level field none of the bodies carries
PerplexityAPI_m3(request, resp) ==
  IF resp.net = "transport_error" THEN [kind |-> "err", val |-> "", err |-> TransportErrMsg]
  ELSE IF resp.net = "read_error" THEN [kind |-> "err", val |-> "", err |-> ReadErrMsg]
  ELSE IF resp.shape = "not_json" THEN [kind |-> "err", val |-> "", err |-> JsonErrMsg]
  ELSE [kind |-> "ok", val |-> "", err |-> nil]

\* initDB: sql.Open / CREATE TABLE fail -> log.Fatalf
main_m3 ==
  /\ prog = "main3"
  /\ pc = "start"
  /\ \E dbOK \in BOOLEAN : pc' = IF dbOK THEN "running" ELSE "exited"
  /\ UNCHANGED << prog, env, hyperlinks, seq, lastUserInput, lastBotResponse,
                  lastMessage, cur, returned, lastQuery, appended, pickers, answered >>

\* body of `if callback.Type == slack.InteractionTypeMessage`
handleSlackEvent_m3(ev) ==
  LET messageText == ev.Text
      channelID   == ev.Channel
  IN
  IF messageText = "!listlinks" THEN
    \E dbErr \in {"none", "query"} :
      LET r == listAllLinks_m3(hyperlinks, dbErr)
      IN /\ cur' = [ Handled(ev, "list") EXCEPT
                       !.dbErr = dbErr,
                       !.listed = r.ids,
                       !.links = r.links,
                       !.sent = << Msg(channelID,
                                   IF r.err # nil
                                   THEN "Error listing links: " \o r.err
                                   ELSE "Saved Hyperlinks:\n" \o Join(r.links, "\n")) >> ]
         /\ UNCHANGED << hyperlinks, seq, returned >>
  ELSE IF messageText = "!randomlink" THEN
    \E in \in PickInputs(hyperlinks) :
      LET r == fetchRandomLink_m3(hyperlinks, in.row, in.dbErr)
      IN /\ hyperlinks' = r.tbl
         /\ returned' = IF r.id # 0 THEN Append(returned, r.id) ELSE returned
         /\ cur' = [ Handled(ev, "random") EXCEPT
                       !.dbErr = in.dbErr,
                       !.picked = r.id,
                       !.sent = << Msg(channelID,
                                   IF r.err # nil
                                   THEN "Error fetching random link: " \o r.err
                                   ELSE "Random Link: " \o r.url) >> ]
         /\ UNCHANGED seq
  ELSE IF HasPrefix(messageText, "!save ") THEN
    \E dbErr \in {"none", "exec"} :
      LET url == TrimPrefix(messageText, "!save ")
          r   == storage_m3(hyperlinks, seq, url, dbErr)
      IN /\ r.seq <= MaxRows
         /\ hyperlinks' = r.tbl
         /\ seq' = r.seq
         /\ cur' = [ Handled(ev, "save") EXCEPT
                       !.dbErr = dbErr,
                       !.url = url,
                       !.sent = << Msg(channelID,
                                   IF r.err # nil
                                   THEN "Error saving link: " \o r.err
                                   ELSE "Link saved: " \o url) >> ]
         /\ UNCHANGED returned
  ELSE IF HasPrefix(messageText, "!rss ") THEN
    \E feed \in Feeds :
      LET url == TrimPrefix(messageText, "!rss ")
          f   == fetchRSSSummary_m3(url, feed)
      IN /\ cur' = [ Handled(ev, "rss") EXCEPT
                       !.feed = FeedKind(feed),
                       !.sent = << Msg(channelID,
                                   IF f.err # nil
                                   THEN "Error fetching RSS feed: " \o f.err
                                   ELSE "RSS Summary:\n" \o f.val) >> ]
         /\ UNCHANGED << hyperlinks, seq, returned >>
  ELSE
    \E resp \in Responses(env, prog) :
      LET a == PerplexityAPI_m3(messageText, resp)
      IN /\ cur' = [ Handled(ev, "default") EXCEPT
                       !.query = messageText,
                       !.queries = <<messageText>>,
                       !.resp = resp,
                       !.api = a.kind,
                       !.apiVal = IF a.kind = "err" THEN a.err ELSE a.val,
                       !.sent = << Msg(channelID,
                                   IF a.kind = "err"
                                   THEN "Error communicating with Perplexity API: " \o a.err
                                   ELSE a.val) >> ]
         /\ UNCHANGED << hyperlinks, seq, returned >>

\* for evt := range client.Events: an interactive event is cast to
\* slack.InteractionCallback without a check (a payload of another type
\* panics); a callback that is not of type "message" has no effect
EventLoop_m3 ==
  /\ prog = "main3"
  /\ pc = "running"
  /\ \/ /\ \E ev \in MessageEvents(prog) : handleSlackEvent_m3(ev)
        /\ UNCHANGED pc
     \/ /\ \E k \in {"ignored", "bad_payload"} :
             /\ cur' = Skipped(k)
             /\ pc' = IF k = "bad_payload" THEN "crashed" ELSE pc
        /\ UNCHANGED << hyperlinks, seq, returned >>
  /\ lastQuery' = Remember(cur')
  /\ appended' = Recorded(cur')
  /\ UNCHANGED << prog, env, lastUserInput, lastBotResponse, lastMessage, pickers, answered >>

(***************************************************************************)
(* The programs                                                            *)
(***************************************************************************)
Next ==
  \/ main_p0 \/ EventLoop_p0
  \/ main_m1 \/ EventLoop_m1
  \/ main_m2 \/ EventLoop_m2
  \/ main_m3 \/ EventLoop_m3

Spec == Init /\ [][Next]_vars

(***************************************************************************)
(* The completion functions applied to every response (SpecApi)            *)
(***************************************************************************)
Queries == {"q1", "q2"}

Applied(q, resp, kind, val) ==
  [NoEvent EXCEPT !.kind = "api", !.query = q, !.queries = <<q>>, !.resp = resp,
                  !.api = kind, !.apiVal = val, !.tick = 1 - cur.tick]

ApplyPerplexityAPI_p0 ==
  /\ prog = "part_000"
  /\ \E q \in Queries, resp \in AllResponses :
       LET a == PerplexityAPI_p0(q, resp)
       IN cur' = Applied(q, resp, a.kind, IF a.kind = "err" THEN a.err ELSE a.val)
  /\ UNCHANGED << prog, env, pc, hyperlinks, seq, lastUserInput, lastBotResponse,
                  lastMessage, returned, lastQuery, appended, pickers, answered >>

ApplyPerplexityAPI_m1 ==
  /\ prog = "main1"
  /\ \E q \in Queries, resp \in AllResponses :
       LET a == PerplexityAPI_m1(q, resp)
       IN cur' = Applied(q, resp, a.kind, a.val)
  /\ UNCHANGED << prog, env, pc, hyperlinks, seq, lastUserInput, lastBotResponse,
                  lastMessage, returned, lastQuery, appended, pickers, answered >>

\* PerplexityAPI, json.Unmarshal and the test of len(Choices) of the loop
ApplyPerplexityAPI_m2 ==
  /\ prog = "main2"
  /\ \E q \in Queries, resp \in AllResponses :
       LET a == PerplexityAPI_m2(env, q, resp)
           d == Unmarshal_m2(a.body)
       IN cur' = IF a.kind = "exit" THEN Applied(q, NoResponse, "exit", "")
                 ELSE IF a.kind = "err" THEN Applied(q, resp, "err", a.err)
                 ELSE IF d.err # nil THEN Applied(q, resp, "err", d.err)
                 ELSE IF Len(d.Choices) > 0 THEN Applied(q, resp, "ok", d.Choices[1])
                 ELSE Applied(q, resp, "empty", "")
  /\ UNCHANGED << prog, env, pc, hyperlinks, seq, lastUserInput, lastBotResponse,
                  lastMessage, returned, lastQuery, appended, pickers, answered >>

ApplyPerplexityAPI_m3 ==
  /\ prog = "main3"
  /\ \E q \in Queries, resp \in AllResponses :
       LET a == PerplexityAPI_m3(q, resp)
       IN cur' = Applied(q, resp, a.kind, IF a.kind = "err" THEN a.err ELSE a.val)
  /\ UNCHANGED << prog, env, pc, hyperlinks, seq, lastUserInput, lastBotResponse,
                  lastMessage, returned, lastQuery, appended, pickers, answered >>

NextApi ==
  \/ ApplyPerplexityAPI_p0 \/ ApplyPerplexityAPI_m1
  \/ ApplyPerplexityAPI_m2 \/ ApplyPerplexityAPI_m3

SpecApi == Init /\ [][NextApi]_vars

(***************************************************************************)
(* The programs driven with variants of their commands (SpecText): texts   *)
(* with surrounding or repeated spaces, upper case, a command without its  *)
(* argument, a command followed by another word                            *)
(***************************************************************************)
VariantTexts(p) ==
  IF p = "part_000"
    THEN {"q1", "!save u1", "!save  U1", "!save ", "!save", "!list", " !list ", "!list x"}
  ELSE IF p = "main1"
    THEN {"q1", "!savelink u1", "!savelink  U1", "!savelink", "!listlinks",
          " !listlinks ", "!listlinks x"}
  ELSE IF p = "main2" THEN {"q1", " q1 "}
  ELSE {"q1", "!save u1", "!save  U1", "!save ", "!listlinks", " !listlinks ",
        "!listlinks x"}

VariantEvents(p) ==
  [User : {"U1"}, Text : VariantTexts(p), BotID : {""}, Channel : Channels]

TextLoop_p0 ==
  /\ prog = "part_000"
  /\ pc = "running"
  /\ \E ev \in VariantEvents(prog) : handleEventAPI_p0(ev)
  /\ lastQuery' = Remember(cur')
  /\ appended' = Recorded(cur')
  /\ UNCHANGED << prog, env, lastMessage, pickers, answered >>

TextLoop_m1 ==
  /\ prog = "main1"
  /\ pc = "running"
  /\ \E ev \in VariantEvents(prog) : handleMessage_m1(ev)
  /\ lastQuery' = Remember(cur')
  /\ appended' = Recorded(cur')
  /\ UNCHANGED << prog, env, pc, lastUserInput, lastBotResponse, lastMessage, pickers, answered >>

TextLoop_m2 ==
  /\ prog = "main2"
  /\ pc = "running"
  /\ \E ev \in VariantEvents(prog) : handleMessageEvent_m2(ev)
  /\ lastQuery' = Remember(cur')
  /\ UNCHANGED << prog, env, hyperlinks, seq, lastUserInput, lastBotResponse, returned,
                  appended, pickers, answered >>

TextLoop_m3 ==
  /\ prog = "main3"
  /\ pc = "running"
  /\ \E ev \in VariantEvents(prog) : handleSlackEvent_m3(ev)
  /\ lastQuery' = Remember(cur')
  /\ appended' = Recorded(cur')
  /\ UNCHANGED << prog, env, pc, lastUserInput, lastBotResponse, lastMessage, pickers, answered >>

NextText ==
  \/ main_p0 \/ TextLoop_p0
  \/ main_m1 \/ TextLoop_m1
  \/ main_m2 \/ TextLoop_m2
  \/ main_m3 \/ TextLoop_m3

SpecText == Init /\ [][NextText]_vars

(***************************************************************************)
(* Pick-and-remove statement by statement (SpecPick): two callers run the  *)
(* SELECT and the DELETE of getRandomHyperlink / fetchRandomLink on the    *)
(* same database; the database runs one statement at a time, the functions *)
(* open no transaction around the two                                      *)
(***************************************************************************)
\* the table after n successful saves of different URLs and no pick (a
\* DELETE by url and a DELETE by id then remove the same row)
PickUrl(i) == "u" \o ToString(i)

InitPick ==
  /\ prog \in {"part_000", "main1", "main3"}
  /\ env = FullEnv(prog)
  /\ pc = "running"
  /\ \E n \in 0..MaxRows :
       /\ hyperlinks = [ i \in 1..n |-> [id |-> i, url |-> PickUrl(i)] ]
       /\ appended = [ i \in 1..n |-> PickUrl(i) ]
       /\ seq = n
  /\ lastUserInput = ""
  /\ lastBotResponse = ""
  /\ lastMessage = <<>>
  /\ cur = NoEvent
  /\ returned = <<>>
  /\ lastQuery = <<>>
  /\ pickers = [k \in Pickers |-> IdlePicker]
  /\ answered = {}

\* SELECT [id,] url FROM hyperlinks ORDER BY RANDOM() LIMIT 1 and its Scan:
\* the caller returns on an error (main1: also on no row, without error),
\* else it holds the scanned row
SelectRandom(p, tbl, row, dbErr) ==
  IF dbErr = "query" THEN [IdlePicker EXCEPT !.pc = "done", !.err = DbErrMsg]
  ELSE IF row = 0
  THEN [IdlePicker EXCEPT !.pc = "done", !.err = IF p = "main1" THEN nil ELSE ErrNoRows]
  ELSE [IdlePicker EXCEPT !.pc = "selected", !.id = tbl[row].id, !.url = tbl[row].url]

\* DELETE FROM hyperlinks WHERE id = ? (main1: WHERE url = ?); a DELETE that
\* matches no row is no error
DeleteSelected(p, tbl, sel) ==
  IF p = "main1" THEN DeleteByUrl(tbl, sel.url) ELSE DeleteById(tbl, sel.id)

PickSelect(k) ==
  /\ pc = "running"
  /\ pickers[k].pc = "idle"
  /\ \E dbErr \in {"none", "query"} :
       \E row \in IF Len(hyperlinks) = 0 THEN {0} ELSE DOMAIN hyperlinks :
         pickers' = [pickers EXCEPT ![k] = SelectRandom(prog, hyperlinks, row, dbErr)]
  /\ UNCHANGED << prog, env, pc, hyperlinks, seq, lastUserInput, lastBotResponse,
                  lastMessage, cur, returned, lastQuery, appended, answered >>

PickDelete(k) ==
  /\ pc = "running"
  /\ pickers[k].pc = "selected"
  /\ \E dbErr \in {"none", "exec"} :
       IF dbErr = "exec"
       THEN /\ pickers' = [pickers EXCEPT ![k] = [IdlePicker EXCEPT !.pc = "done",
                                                                   !.err = DbErrMsg]]
            /\ UNCHANGED hyperlinks
       ELSE /\ hyperlinks' = DeleteSelected(prog, hyperlinks, pickers[k])
            /\ pickers' = [pickers EXCEPT ![k].pc = "done", ![k].ret = pickers[k].url]
  /\ UNCHANGED << prog, env, pc, seq, lastUserInput, lastBotResponse, lastMessage,
                  cur, returned, lastQuery, appended, answered >>

NextPick == \E k \in Pickers : PickSelect(k) \/ PickDelete(k)

SpecPick == InitPick /\ [][NextPick]_vars

(***************************************************************************)
(* The two programs that keep a dedup state, driven with queries of two    *)
(* senders, the answered queries recorded (SpecCache)                      *)
(***************************************************************************)
QueryEvents == [User : Users, Text : Queries, BotID : {""}, Channel : Channels]

\* a completion call of the message succeeded: its response joins the history
Answered(c) ==
  IF IsQuery(c) /\ Len(c.queries) = 1 /\ c.resp.net = "body" /\ c.resp.shape = "ok"
     /\ c.api = "ok"
  THEN answered \cup { << c.ev.User, c.query, c.resp.content >> }
  ELSE answered

InitCache == Init /\ prog \in {"part_000", "main2"}

CacheLoop_p0 ==
  /\ prog = "part_000"
  /\ pc = "running"
  /\ \E ev \in QueryEvents : handleEventAPI_p0(ev)
  /\ lastQuery' = Remember(cur')
  /\ appended' = Recorded(cur')
  /\ answered' = Answered(cur')
  /\ UNCHANGED << prog, env, lastMessage, pickers >>

CacheLoop_m2 ==
  /\ prog = "main2"
  /\ pc = "running"
  /\ \E ev \in QueryEvents : handleMessageEvent_m2(ev)
  /\ lastQuery' = Remember(cur')
  /\ answered' = Answered(cur')
  /\ UNCHANGED << prog, env, hyperlinks, seq, lastUserInput, lastBotResponse, returned,
                  appended, pickers >>

NextCache == main_p0 \/ CacheLoop_p0 \/ main_m2 \/ CacheLoop_m2

SpecCache == InitCache /\ [][NextCache]_vars

(***************************************************************************)
(* Properties                                                              *)
(***************************************************************************)
\* the step handled a new event
NewEvent == cur'.tick # cur.tick

\* the completion call of the event succeeded: the endpoint sent a body with
\* choices[0].message.content and the function returned it
Succeeded(c) ==
  Len(c.queries) = 1 /\ c.resp.net = "body" /\ c.resp.shape = "ok" /\ c.api = "ok"

\* C1: in the programs that keep a dedup state (part_000, main2), when a
\* sender submits the same completion query twice in a row and the first
\* completion call succeeds, the two messages cause exactly one completion
\* call and two identical replies.
C1_RepeatOneCallSameReply ==
  [][ ( /\ NewEvent
        /\ prog \in {"part_000", "main2"}
        /\ IsQuery(cur) /\ IsQuery(cur')
        /\ cur'.ev.User = cur.ev.User
        /\ cur'.query = cur.query
        /\ Succeeded(cur) )
      => ( /\ Len(cur.queries) + Len(cur'.queries) = 1
           /\ Len(cur.sent) = 1
           /\ cur'.sent = cur.sent ) ]_vars

\* C2: a query is treated as a duplicate only when the sender's own previous
\* query had the same text; queries of other senders play no part.
C2_DedupPerSender ==
  [][ (NewEvent /\ IsQuery(cur') /\ cur'.dup)
      => MapGet(lastQuery, cur'.ev.User) = cur'.query ]_vars

\* C3: a failed completion call leaves the dedup state as it was, and the
\* same query sent again right after the failure is sent to the endpoint
\* again.
C3_FailureKeepsDedupState ==
  [][ /\ (NewEvent /\ cur'.kind = "message" /\ cur'.api = "err")
         => /\ lastUserInput' = lastUserInput
            /\ lastBotResponse' = lastBotResponse
            /\ lastMessage' = lastMessage
      /\ ( /\ NewEvent
           /\ IsQuery(cur) /\ cur.api = "err" /\ IsQuery(cur')
           /\ cur'.ev.User = cur.ev.User /\ cur'.query = cur.query )
         => Len(cur'.queries) = 1 ]_vars

\* C4: a row returned by pick-and-remove is returned once only: no id occurs
\* twice among the returned rows, no returned row is still stored, and no
\* list shows a row returned before it.
C4_ReturnedAtMostOnce ==
  /\ \A i, j \in DOMAIN returned : i # j => returned[i] # returned[j]
  /\ \A i \in DOMAIN returned : returned[i] \notin Ids(hyperlinks)
  /\ \A i \in DOMAIN returned : returned[i] \notin cur.listed

\* a list command answered with a stored row after another row was picked
C4_Witness ==
  /\ Len(returned) >= 1
  /\ cur.intent = "list"
  /\ cur.listed # {}

\* C5: a successful pick-and-remove removes the selected row and no other
\* row: the table shrinks by exactly one row, rows with the same URL stay.
C5_PickRemovesOneRow ==
  [][ (NewEvent /\ cur'.picked # 0)
      => /\ hyperlinks' = DeleteById(hyperlinks, cur'.picked)
         /\ Len(hyperlinks') = Len(hyperlinks) - 1 ]_vars

\* C6: every message of a person whose handling ran to its end (the process
\* neither crashed nor exited in it) produced exactly one outbound message.
C6_ExactlyOneReply ==
  (cur.kind = "message" /\ cur.ev.BotID = "" /\ pc = "running")
  => Len(cur.sent) = 1

\* C7: a message flagged as coming from a bot produces no outbound message,
\* no completion call, no change of the store and no change of the dedup
\* state.
C7_BotMessageNoEffect ==
  [][ (NewEvent /\ cur'.kind = "message" /\ cur'.ev.BotID # "")
      => /\ cur'.sent = <<>>
         /\ cur'.queries = <<>>
         /\ hyperlinks' = hyperlinks /\ seq' = seq
         /\ lastUserInput' = lastUserInput
         /\ lastBotResponse' = lastBotResponse
         /\ lastMessage' = lastMessage ]_vars

\* C8: after an event has been handled, whatever failed while handling it,
\* the loop is still running.
C8_LoopSurvives ==
  cur.kind # "none" => pc = "running"

\* C9: the completion function answers a body that lacks
\* choices[0].message.content with an error: not with a string, not with a
\* crash.
C9_TypedFailure ==
  (cur.kind = "api" /\ cur.resp.net = "body" /\ cur.resp.shape \in LackingShapes)
  => cur.api = "err"

\* C10: a random-pick command on an empty store, the database working, is
\* answered with exactly "No hyperlinks available" and leaves the store
\* empty.
C10_EmptyPickLiteral ==
  [][ ( /\ NewEvent
        /\ cur'.kind = "message" /\ cur'.ev.BotID = "" /\ cur'.intent = "random"
        /\ cur'.dbErr = "none"
        /\ hyperlinks = <<>> )
      => /\ hyperlinks' = <<>>
         /\ cur'.sent = << Msg(cur'.ev.Channel, "No hyperlinks available") >> ]_vars

\* C11: a summarize command whose feed has no entries is answered with one
\* error message and posts nothing to the completion endpoint.
C11_EmptyFeedNoCompletion ==
  (cur.kind = "message" /\ cur.intent = "summarize" /\ cur.feed = "empty")
  => /\ cur.queries = <<>>
     /\ cur.api = "none"
     /\ Len(cur.sent) = 1
     /\ HasPrefix(cur.sent[1].text, "Error ")

\* a summarize command picked a stored link and its feed had no entries
C11_Witness ==
  /\ cur.kind = "message" /\ cur.intent = "summarize"
  /\ cur.picked # 0 /\ cur.feed = "empty"
  /\ Len(cur.sent) = 1

\* number of occurrences of x in the sequence s
Count(s, x) == Cardinality({ i \in DOMAIN s : s[i] = x })

\* s and t hold the same elements the same number of times
SameBag(s, t) ==
  /\ Len(s) = Len(t)
  /\ \A i \in DOMAIN s : Count(s, s[i]) = Count(t, s[i])

\* C12: while no link has been picked, a list command (the database working)
\* returns as many strings as INSERTs succeeded, and they are the inserted
\* strings themselves, each as often as it was inserted: duplicates, spaces
\* and letter case are kept.
C12_ListAfterAppends ==
  (cur.kind = "message" /\ cur.intent = "list" /\ cur.dbErr = "none" /\ returned = <<>>)
  => /\ Len(cur.links) = Len(appended)
     /\ SameBag(cur.links, appended)

\* a list after two saves of the same URL with a leading space and an upper
\* case letter returned that string twice
C12_Witness ==
  /\ cur.kind = "message" /\ cur.intent = "list" /\ cur.dbErr = "none"
  /\ returned = <<>>
  /\ appended = << " U1", " U1" >>
  /\ cur.links = << " U1", " U1" >>

\* C13: a save command whose INSERT succeeds adds exactly one row, and the
\* url of that row is the text after the command word ("!savelink" or
\* "!save") with the surrounding spaces removed.
C13_SavedUrlTrimmed ==
  [][ (NewEvent /\ cur'.kind = "message" /\ cur'.intent = "save" /\ cur'.dbErr = "none")
      => LET text == TrimSpace(cur'.ev.Text)
             rest == IF HasPrefix(text, "!savelink")
                     THEN TrimPrefix(text, "!savelink")
                     ELSE TrimPrefix(text, "!save")
         IN /\ Len(hyperlinks') = Len(hyperlinks) + 1
            /\ SubSeq(hyperlinks', 1, Len(hyperlinks)) = hyperlinks
            /\ hyperlinks'[Len(hyperlinks')].url = TrimSpace(rest) ]_vars

\* C14: no save command inserts an empty URL: the table never holds a row
\* whose url is the empty string.
C14_NoEmptyUrl ==
  \A i \in DOMAIN hyperlinks : hyperlinks[i].url # ""

\* C15: a list command, the database working, is answered with one message:
\* on an empty table a message that is not the header line with an empty
\* list after it, on a table with rows the header line followed by the
\* stored URLs joined by newlines.
C15_ListReply ==
  (cur.kind = "message" /\ cur.intent = "list" /\ cur.dbErr = "none")
  => /\ Len(cur.sent) = 1
     /\ IF cur.links = <<>>
        THEN ~ HasPrefix(cur.sent[1].text, "Saved ")
        ELSE cur.sent[1].text \in
               { h \o "\n" \o Join(cur.links, "\n") :
                   h \in {"Saved hyperlinks:", "Saved Hyperlinks:"} }

\* C16: a message of a person whose trimmed text is none of the commands
\* (an exact command word, or a prefix command with its argument) and whose
\* handling ran to its end is taken as a default completion query: the query
\* is the whole trimmed text, it is posted to the endpoint or answered from
\* the dedup cache, exactly one reply is sent and the table is not touched.
C16_UnmatchedIsDefault ==
  [][ LET text == TrimSpace(cur'.ev.Text)
          isCommand ==
            \/ text \in {"!list", "!listlinks", "!random", "!randomlink", "!getlink",
                          "!summarize", "!savelink"}
            \/ HasPrefix(text, "!save ") \/ HasPrefix(text, "!savelink ")
            \/ HasPrefix(text, "!rss ") \/ HasPrefix(text, "!perplexity")
      IN ( /\ NewEvent
           /\ cur'.kind = "message" /\ cur'.ev.BotID = ""
           /\ pc' = "running"
           /\ ~ isCommand )
         => /\ cur'.intent = "default"
            /\ cur'.query = text
            /\ (Len(cur'.queries) = 1 \/ cur'.dup)
            /\ Len(cur'.sent) = 1
            /\ hyperlinks' = hyperlinks ]_vars

\* C17: the intent depends on the trimmed text only: two messages of persons
\* whose texts differ in leading or trailing spaces only are given the same
\* intent.
C17_ClassifiedOnTrimmedText ==
  [][ ( /\ NewEvent
        /\ cur.kind = "message" /\ cur.ev.BotID = ""
        /\ cur'.kind = "message" /\ cur'.ev.BotID = ""
        /\ TrimSpace(cur'.ev.Text) = TrimSpace(cur.ev.Text) )
      => cur'.intent = cur.intent ]_vars

\* C18: every message sent while handling an inbound message goes to the
\* channel that inbound message came from.
C18_ReplyToInboundChannel ==
  cur.kind = "message"
  => \A i \in DOMAIN cur.sent : cur.sent[i].channel = cur.ev.Channel

\* C19: a program that lacks one of its credentials (bot token, app token,
\* completion key) stops at start-up: no inbound event is handled without
\* all of them, and no handling of a message ends the process for a missing
\* credential.
C19_CredentialsCheckedAtStartup ==
  /\ cur.kind # "none" => FullEnv(prog) \subseteq env
  /\ cur.api # "exit"

\* caller k of pick-and-remove returned a link
Got(k) == pickers[k].pc = "done" /\ pickers[k].err = nil /\ pickers[k].id # 0

\* C20: however the statements of two pick-and-remove calls interleave, the
\* two calls do not return the same row, and as many rows have left the
\* table as links have been returned.
C20_PickAtomic ==
  /\ \A j, k \in Pickers : (j # k /\ Got(j) /\ Got(k)) => pickers[j].id # pickers[k].id
  /\ seq - Len(hyperlinks) = Cardinality({ k \in Pickers : Got(k) })

\* C21: handling a list, feed-summarize or completion message (answered by
\* the endpoint, from the dedup cache, or failed) leaves the table as it was;
\* handling a save, list, random-pick, summarize or feed-summarize message
\* leaves the dedup state as it was, so that a query which would have been a
\* repeat before the command is still a repeat after it.
C21_FrameEffects ==
  [][ (NewEvent /\ cur'.kind = "message")
      => /\ cur'.intent \in {"list", "rss", "default", "perplexity"}
            => (hyperlinks' = hyperlinks /\ seq' = seq)
         /\ cur'.intent \in {"save", "list", "random", "summarize", "rss"}
            => /\ lastUserInput' = lastUserInput
               /\ lastBotResponse' = lastBotResponse
               /\ lastMessage' = lastMessage
         /\ ( /\ prog = "part_000"
              /\ cur.kind = "message"
              /\ cur.intent \in {"save", "list", "random", "summarize"}
              /\ IsQuery(cur') /\ cur'.query = lastUserInput )
            => (cur'.dup /\ cur'.queries = <<>>) ]_vars

\* a list command was handled while links were stored and a query and its
\* answer were remembered
C21_Witness ==
  /\ cur.kind = "message" /\ cur.intent = "list"
  /\ hyperlinks # <<>>
  /\ lastUserInput # "" /\ lastBotResponse # ""

\* C22: a completion query answered from the dedup cache (nothing is posted
\* to the endpoint) is answered with one message whose text is a response
\* that an earlier successful completion call returned for the same query
\* text of the same sender.
C22_CacheHitReply ==
  (IsQuery(cur) /\ cur.dup /\ cur.queries = <<>>)
  => /\ Len(cur.sent) = 1
     /\ << cur.ev.User, cur.query, cur.sent[1].text >> \in answered

\* C23: a summarize command on a table with rows, the database working,
\* leaves the table with exactly one row fewer (the picked one), whatever
\* the feed fetch and the completion call do afterwards.
C23_SummarizeConsumesLink ==
  [][ ( /\ NewEvent
        /\ cur'.kind = "message" /\ cur'.intent = "summarize"
        /\ cur'.dbErr = "none"
        /\ hyperlinks # <<>> )
      => /\ cur'.picked # 0
         /\ Len(hyperlinks') = Len(hyperlinks) - 1
         /\ hyperlinks' = DeleteById(hyperlinks, cur'.picked) ]_vars

====
